---- MODULE Spec2Model ----
(***************************************************************************)
(* Model of stocks_dashboard.py: the fetch -> derive -> render pipeline     *)
(* that main() runs once per interaction, and the three functions it is     *)
(* built from (get_stock_data, calculate_indicators, plot_stock_data).      *)
(*                                                                          *)
(* A DataFrame is a record                                                  *)
(*   [none, nested, columns, rows]                                          *)
(* none    : TRUE for Python's None (the other fields are then empty);      *)
(* nested  : TRUE when the column index is a pandas MultiIndex;             *)
(* columns : the column labels in order, each label a tuple of its levels   *)
(*           (a flat label is a 1-tuple);                                   *)
(* rows    : the rows in order, each [date, vals] with vals aligned with    *)
(*           columns.  NaN is the absent value.                             *)
(***************************************************************************)
EXTENDS Integers, Sequences, FiniteSets, TLC

VARIABLES
    ticker, show_sma, sma_period, show_ema, ema_period,
    show_bollinger, show_rsi, show_macd,   \* widget values read by main
    pc,          \* position in main (or in the direct-call harness)
    downloaded,  \* what yf.download did in this interaction
    fetched,     \* the object returned by get_stock_data / passed to calculate_indicators
    data,        \* the object returned by calculate_indicators / passed to plot_stock_data
    errors,      \* st.error messages shown, in order; a message is a tuple of text pieces
    charts,      \* st.plotly_chart figures drawn, in order
    log,         \* calls made, in order
    raised       \* TRUE when an exception escaped the called function

vars == <<ticker, show_sma, sma_period, show_ema, ema_period, show_bollinger,
          show_rsi, show_macd, pc, downloaded, fetched, data, errors, charts,
          log, raised>>

widgets == <<ticker, show_sma, sma_period, show_ema, ema_period, show_bollinger,
             show_rsi, show_macd>>

-----------------------------------------------------------------------------
(* Bounds of the model *)

\* Row counts 0..MaxRows are enumerated (covers the windows 5, 14, 20 and 26).
MaxRows == 28

\* One longer table, the "100 rows" of the end-to-end scenario.
ScenarioRows == 100

(* Program constants *)
BollingerWindow == 20
RsiWindow == 14
MacdWindow == 26
MinPeriod == 5
DefaultPeriod == 20
RsiOverbought == 70
RsiOversold == 30

Periods == {MinPeriod, DefaultPeriod}
Tickers == {"AAPL", "TSLA"}
RowCounts == (0..MaxRows) \cup {ScenarioRows}

-----------------------------------------------------------------------------
(* Values *)

NaN == -1

None == [none |-> TRUE, nested |-> FALSE, columns |-> <<>>, rows |-> <<>>]

\* str(int)
Digit(d) ==
    CASE d = 0 -> "0" [] d = 1 -> "1" [] d = 2 -> "2" [] d = 3 -> "3"
      [] d = 4 -> "4" [] d = 5 -> "5" [] d = 6 -> "6" [] d = 7 -> "7"
      [] d = 8 -> "8" [] d = 9 -> "9"

RECURSIVE IntToStr(_)
IntToStr(n) == IF n < 10 THEN Digit(n) ELSE IntToStr(n \div 10) \o Digit(n % 10)

\* f'SMA_{sma_period}', f'EMA_{ema_period}'
SmaName(p) == "SMA_" \o IntToStr(p)
EmaName(p) == "EMA_" \o IntToStr(p)

\* The column names calculate_indicators may write.
DerivedNames(sp, ep) ==
    {SmaName(sp), EmaName(ep), "BB_high", "BB_low", "RSI", "MACD", "MACD_signal"}

-----------------------------------------------------------------------------
(* pandas *)

\* len(data)
len(df) == Len(df.rows)

\* data.empty : any axis of length 0
Empty(df) == Len(df.columns) = 0 \/ Len(df.rows) = 0

\* name in data.columns, for a flat column index
HasColumn(df, name) == \E j \in 1..Len(df.columns) : df.columns[j] = <<name>>

\* position of the (first) column called name
ColIndex(df, name) ==
    CHOOSE j \in 1..Len(df.columns) :
        /\ df.columns[j] = <<name>>
        /\ \A k \in 1..(j - 1) : df.columns[k] # <<name>>

\* data.columns = [col[0] for col in data.columns]
FlattenLast(df) ==
    [df EXCEPT !.nested = FALSE,
               !.columns = [j \in 1..Len(df.columns) |->
                               <<df.columns[j][Len(df.columns[j])]>>]]

Flatten(df) ==
    [df EXCEPT !.nested = FALSE,
               !.columns = [j \in 1..Len(df.columns) |-> <<df.columns[j][1]>>]]

\* data.dropna(subset=['Close'], how='any') : a new frame without the rows
\* whose Close is NaN
dropna_keep_all(df) == df

dropna(df) ==
    LET c == ColIndex(df, "Close")
        keep(r) == r.vals[c] # NaN
    IN  [df EXCEPT !.rows = SelectSeq(df.rows, keep)]

\* data[name] = values : replaces the column of that name, or appends one
SetColumn(df, name, values) ==
    IF HasColumn(df, name)
    THEN LET c == ColIndex(df, name)
         IN  [df EXCEPT !.rows = [i \in 1..Len(df.rows) |->
                                    [df.rows[i] EXCEPT !.vals[c] = values[i]]]]
    ELSE [df EXCEPT !.columns = Append(df.columns, <<name>>),
                    !.rows = [i \in 1..Len(df.rows) |->
                                [df.rows[i] EXCEPT !.vals = Append(@, values[i])]]]

-----------------------------------------------------------------------------
(* ta : the indicator library.  Its formulas are outside the program; a     *)
(* computed column is a column of values tagged with the indicator and the  *)
(* row's date, distinct from every fetched value.                           *)

TaSeries(df, tag) == [i \in 1..Len(df.rows) |-> 10000 * tag + df.rows[i].date]

\* len(data) > window : the guard of every indicator
EnoughRowsInclusive(df, window) == len(df) >= window

EnoughRows(df, window) == len(df) > window

-----------------------------------------------------------------------------
(* streamlit messages: a message is the tuple of its text pieces, the       *)
(* interpolated values being pieces of their own                            *)

NoDataMessageAnonymous(t) ==
    <<"No data available. Please check the symbol and try again.">>

NoDataMessage(t) ==
    <<"No data available for ", t, ". Please check the symbol and try again.">>

MissingCloseMessage == <<"'Close' column is missing. Unable to compute indicators.">>

FetchErrorMessage(t, e) == <<" Error fetching data for ", t, ": ", e>>

NoValidDataMessage == <<" No valid data for plotting.">>

FailedFetchMessage ==
    <<"Failed to fetch stock data. Check the ticker symbol or try again later.">>

-----------------------------------------------------------------------------
(* get_stock_data(ticker, start, end), given what yf.download did:          *)
(* out = [kind, table, err], kind "none" (returned None), "table" (returned *)
(* out.table) or "raise" (raised an Exception with text out.err).           *)
(* Result: the value returned, the messages shown, the number of provider   *)
(* calls made and whether an exception escaped.                             *)

get_stock_data_retry(t, out) ==
    IF out.kind = "raise"
    THEN [ret |-> None, errors |-> <<FetchErrorMessage(t, out.err)>>,
          downloads |-> 2, raised |-> FALSE]
    ELSE IF out.kind = "none" \/ Empty(out.table)
    THEN [ret |-> None, errors |-> <<NoDataMessage(t)>>,
          downloads |-> 1, raised |-> FALSE]
    ELSE LET d == IF out.table.nested THEN Flatten(out.table) ELSE out.table
         IN  IF ~HasColumn(d, "Close")
             THEN [ret |-> None, errors |-> <<MissingCloseMessage>>,
                   downloads |-> 1, raised |-> FALSE]
             ELSE [ret |-> d, errors |-> <<>>, downloads |-> 1, raised |-> FALSE]

get_stock_data(t, out) ==
    IF out.kind = "raise"
    THEN [ret |-> None, errors |-> <<FetchErrorMessage(t, out.err)>>,
          downloads |-> 1, raised |-> FALSE]
    ELSE IF out.kind = "none" \/ Empty(out.table)
    THEN [ret |-> None, errors |-> <<NoDataMessage(t)>>,
          downloads |-> 1, raised |-> FALSE]
    ELSE LET d == IF out.table.nested THEN Flatten(out.table) ELSE out.table
         IN  IF ~HasColumn(d, "Close")
             THEN [ret |-> None, errors |-> <<MissingCloseMessage>>,
                   downloads |-> 1, raised |-> FALSE]
             ELSE [ret |-> d, errors |-> <<>>, downloads |-> 1, raised |-> FALSE]

-----------------------------------------------------------------------------
(* calculate_indicators(data, show_sma, sma_period, show_ema, ema_period,   *)
(*                      show_bollinger, show_rsi, show_macd)                *)
(* Result: the value returned (ret), the caller's object after the call     *)
(* (arg), and whether an exception escaped.                                 *)

\* data is None or data.empty
IsNoneOnly(df) == df.none

IsNoneOrEmpty(df) == df.none \/ Empty(df)

\* lines 37-54, applied to the frame dropna returned
AddIndicators(d0, ssma, psma, sema, pema, sbb, srsi, smacd) ==
    LET d1 == IF ssma /\ EnoughRows(d0, psma)
              THEN SetColumn(d0, SmaName(psma), TaSeries(d0, 1)) ELSE d0
        d2 == IF sema /\ EnoughRows(d1, pema)
              THEN SetColumn(d1, EmaName(pema), TaSeries(d1, 2)) ELSE d1
        d3 == IF sbb /\ EnoughRows(d2, BollingerWindow)
              THEN SetColumn(SetColumn(d2, "BB_high", TaSeries(d2, 3)),
                             "BB_low", TaSeries(d2, 4))
              ELSE d2
        d4 == IF srsi /\ EnoughRows(d3, RsiWindow)
              THEN SetColumn(d3, "RSI", TaSeries(d3, 5)) ELSE d3
        d5 == IF smacd /\ EnoughRows(d4, MacdWindow)
              THEN SetColumn(SetColumn(d4, "MACD", TaSeries(d4, 6)),
                             "MACD_signal", TaSeries(d4, 7))
              ELSE d4
    IN  d5

calculate_indicators(df, ssma, psma, sema, pema, sbb, srsi, smacd) ==
    IF IsNoneOrEmpty(df)
    THEN [ret |-> None, arg |-> df, raised |-> FALSE]
    ELSE IF ~HasColumn(df, "Close")
    THEN [ret |-> None, arg |-> df, raised |-> TRUE]    \* KeyError from dropna
    ELSE [ret |-> AddIndicators(dropna(df), ssma, psma, sema, pema, sbb, srsi, smacd),
          arg |-> df, raised |-> FALSE]

-----------------------------------------------------------------------------
(* plot_stock_data(data, ticker, show_sma, sma_period, show_ema,            *)
(*                 ema_period, show_bollinger, show_rsi, show_macd)         *)
(* Result: the figures handed to st.plotly_chart, in order, and whether an  *)
(* exception escaped (a KeyError on a column the frame does not have).      *)

Trace(name, column, color) == [name |-> name, y |-> column, color |-> color]

Chart(section, title, traces, hlines) ==
    [section |-> section, title |-> title, traces |-> traces, hlines |-> hlines]

\* fig, lines 60-71
PrimaryTracesEmaFirst(df, ssma, psma, sema, pema, sbb) ==
    <<Trace("Close Price", "Close", "blue")>>
    \o (IF sema /\ HasColumn(df, EmaName(pema))
        THEN <<Trace("EMA " \o IntToStr(pema), EmaName(pema), "green")>> ELSE <<>>)
    \o (IF ssma /\ HasColumn(df, SmaName(psma))
        THEN <<Trace("SMA " \o IntToStr(psma), SmaName(psma), "orange")>> ELSE <<>>)
    \o (IF sbb /\ HasColumn(df, "BB_high")
        THEN <<Trace("Bollinger High", "BB_high", "red"),
               Trace("Bollinger Low", "BB_low", "purple")>>
        ELSE <<>>)

PrimaryTraces(df, ssma, psma, sema, pema, sbb) ==
    <<Trace("Close Price", "Close", "blue")>>
    \o (IF ssma /\ HasColumn(df, SmaName(psma))
        THEN <<Trace("SMA " \o IntToStr(psma), SmaName(psma), "orange")>> ELSE <<>>)
    \o (IF sema /\ HasColumn(df, EmaName(pema))
        THEN <<Trace("EMA " \o IntToStr(pema), EmaName(pema), "green")>> ELSE <<>>)
    \o (IF sbb /\ HasColumn(df, "BB_high")
        THEN <<Trace("Bollinger High", "BB_high", "red"),
               Trace("Bollinger Low", "BB_low", "purple")>>
        ELSE <<>>)

\* fig_rsi, lines 76-82
RsiChartsNoPresenceCheck(df, srsi) ==
    IF srsi
    THEN <<Chart("Relative Strength Index (RSI)", "",
                 <<Trace("RSI", "RSI", "yellow")>>,
                 <<RsiOverbought, RsiOversold>>)>>
    ELSE <<>>

RsiCharts(df, srsi) ==
    IF srsi /\ HasColumn(df, "RSI")
    THEN <<Chart("Relative Strength Index (RSI)", "",
                 <<Trace("RSI", "RSI", "yellow")>>,
                 <<RsiOverbought, RsiOversold>>)>>
    ELSE <<>>

\* fig_macd, lines 84-89
MacdCharts(df, smacd) ==
    IF smacd /\ HasColumn(df, "MACD")
    THEN <<Chart("MACD Indicator", "",
                 <<Trace("MACD", "MACD", "cyan"),
                   Trace("Signal Line", "MACD_signal", "magenta")>>,
                 <<>>)>>
    ELSE <<>>

plot_stock_data(df, t, ssma, psma, sema, pema, sbb, srsi, smacd) ==
    IF ~HasColumn(df, "Close")
    THEN [charts |-> <<>>, raised |-> TRUE]                      \* data['Close']
    ELSE IF sbb /\ HasColumn(df, "BB_high") /\ ~HasColumn(df, "BB_low")
    THEN [charts |-> <<>>, raised |-> TRUE]                      \* data['BB_low']
    ELSE LET primary == Chart("", t \o " Stock Price",
                              PrimaryTraces(df, ssma, psma, sema, pema, sbb), <<>>)
         IN  IF smacd /\ HasColumn(df, "MACD") /\ ~HasColumn(df, "MACD_signal")
             THEN [charts |-> <<primary>> \o RsiCharts(df, srsi),
                   raised |-> TRUE]                              \* data['MACD_signal']
             ELSE [charts |-> <<primary>> \o RsiCharts(df, srsi) \o MacdCharts(df, smacd),
                   raised |-> FALSE]

-----------------------------------------------------------------------------
(* Inputs: the tables the provider may return and the tables a direct call  *)
(* may pass.  Fetched values are 1000 * column + date; Close is NaN on the  *)
(* rows the mode selects.                                                   *)

NanModes == {"none", "odd", "all"}

IsNaN(d, mode) ==
    CASE mode = "none" -> FALSE
      [] mode = "odd"  -> d % 2 = 1
      [] mode = "all"  -> TRUE

MakeTable(cols, nested, n, mode) ==
    [none |-> FALSE, nested |-> nested, columns |-> cols,
     rows |-> [d \in 1..n |->
                 [date |-> d,
                  vals |-> [j \in 1..Len(cols) |->
                              IF cols[j][1] = "Close" /\ IsNaN(d, mode)
                              THEN NaN ELSE 1000 * j + d]]]]

\* Column layouts of yf.download's result for ticker t.
ProviderLayouts(t) ==
    { [nested |-> FALSE, cols |-> <<<<"Open">>, <<"Close">>>>],
      [nested |-> FALSE, cols |-> <<<<"Open">>, <<"Volume">>>>],
      [nested |-> TRUE,  cols |-> <<<<"Open", t>>, <<"Close", t>>>>],
      [nested |-> TRUE,  cols |-> <<<<t, "Open">>, <<t, "Close">>>>],
      [nested |-> FALSE, cols |-> <<>>] }

ProviderOutcomes(t) ==
    { [kind |-> "none", table |-> None, err |-> ""],
      [kind |-> "raise", table |-> None, err |-> "timed out"] }
    \cup
    { [kind |-> "table", table |-> MakeTable(l.cols, l.nested, n, mode), err |-> ""] :
        l \in ProviderLayouts(t), n \in RowCounts, mode \in NanModes }

NoDownload == [kind |-> "pending", table |-> None, err |-> ""]

\* Frames a direct caller may pass to calculate_indicators.
DirectLayouts ==
    { <<<<"Open">>, <<"Close">>>>,
      <<<<"Close">>, <<"RSI">>>>,
      <<<<"Close">>, <<"BB_high">>>>,
      <<>> }

DirectInputs ==
    {None} \cup
    { MakeTable(cols, FALSE, n, mode) :
        cols \in DirectLayouts, n \in RowCounts, mode \in NanModes }

-----------------------------------------------------------------------------
(* main(): one interaction, lines 126-135 *)

\* line 128: if data is not None (after get_stock_data)
FetchOkAlways(df) == TRUE

FetchOk(df) == ~df.none

\* line 130: if data is not None (after calculate_indicators)
DeriveOk(df) == ~df.none

Calls(name, n) == [i \in 1..n |-> name]

Init ==
    /\ ticker = "AAPL"
    /\ show_sma = TRUE
    /\ sma_period = DefaultPeriod
    /\ show_ema = FALSE
    /\ ema_period = DefaultPeriod
    /\ show_bollinger = FALSE
    /\ show_rsi = FALSE
    /\ show_macd = FALSE
    /\ pc = "fetch"
    /\ downloaded = NoDownload
    /\ fetched = None
    /\ data = None
    /\ errors = <<>>
    /\ charts = <<>>
    /\ log = <<>>
    /\ raised = FALSE

\* line 126 and the else branch of line 134
MainFetch ==
    /\ pc = "fetch"
    /\ \E out \in ProviderOutcomes(ticker) :
        LET r == get_stock_data(ticker, out)
        IN  /\ downloaded' = out
            /\ fetched' = r.ret
            /\ raised' = r.raised
            /\ log' = log \o <<"get_stock_data">> \o Calls("yf.download", r.downloads)
            /\ IF r.raised
               THEN pc' = "crashed" /\ errors' = errors \o r.errors
               ELSE IF FetchOk(r.ret)
               THEN pc' = "derive" /\ errors' = errors \o r.errors
               ELSE pc' = "done" /\ errors' = errors \o r.errors \o <<FailedFetchMessage>>
    /\ UNCHANGED <<widgets, data, charts>>

\* line 129 and the else branch of line 132
MainDerive ==
    /\ pc = "derive"
    /\ LET r == calculate_indicators(fetched, show_sma, sma_period, show_ema, ema_period,
                                     show_bollinger, show_rsi, show_macd)
       IN  /\ data' = r.ret
           /\ fetched' = r.arg
           /\ raised' = r.raised
           /\ log' = Append(log, "calculate_indicators")
           /\ IF r.raised
              THEN pc' = "crashed" /\ errors' = errors
              ELSE IF DeriveOk(r.ret)
              THEN pc' = "render" /\ errors' = errors
              ELSE pc' = "done" /\ errors' = Append(errors, NoValidDataMessage)
    /\ UNCHANGED <<widgets, downloaded, charts>>

\* line 131
MainRender ==
    /\ pc = "render"
    /\ LET r == plot_stock_data(data, ticker, show_sma, sma_period, show_ema, ema_period,
                                show_bollinger, show_rsi, show_macd)
       IN  /\ charts' = charts \o r.charts
           /\ raised' = r.raised
           /\ log' = Append(log, "plot_stock_data")
           /\ pc' = IF r.raised THEN "crashed" ELSE "done"
    /\ UNCHANGED <<widgets, downloaded, fetched, data, errors>>

\* The widgets' values for the next run of main (lines 108-123).
SetWidgets(t, ssma, psma, sema, pema, sbb, srsi, smacd) ==
    /\ ticker' = t
    /\ show_sma' = ssma
    /\ sma_period' = psma
    /\ show_ema' = sema
    /\ ema_period' = pema
    /\ show_bollinger' = sbb
    /\ show_rsi' = srsi
    /\ show_macd' = smacd

\* The user changes one widget: streamlit clears the page and runs main again
\* with the widgets' new values.
Rerun ==
    /\ pc \in {"done", "crashed"}
    /\ \/ \E t \in Tickers \ {ticker} :
            SetWidgets(t, show_sma, sma_period, show_ema, ema_period,
                       show_bollinger, show_rsi, show_macd)
       \/ SetWidgets(ticker, ~show_sma, sma_period, show_ema, ema_period,
                     show_bollinger, show_rsi, show_macd)
       \/ \E p \in Periods \ {sma_period} :
            SetWidgets(ticker, show_sma, p, show_ema, ema_period,
                       show_bollinger, show_rsi, show_macd)
       \/ SetWidgets(ticker, show_sma, sma_period, ~show_ema, ema_period,
                     show_bollinger, show_rsi, show_macd)
       \/ \E p \in Periods \ {ema_period} :
            SetWidgets(ticker, show_sma, sma_period, show_ema, p,
                       show_bollinger, show_rsi, show_macd)
       \/ SetWidgets(ticker, show_sma, sma_period, show_ema, ema_period,
                     ~show_bollinger, show_rsi, show_macd)
       \/ SetWidgets(ticker, show_sma, sma_period, show_ema, ema_period,
                     show_bollinger, ~show_rsi, show_macd)
       \/ SetWidgets(ticker, show_sma, sma_period, show_ema, ema_period,
                     show_bollinger, show_rsi, ~show_macd)
    /\ pc' = "fetch"
    /\ downloaded' = NoDownload
    /\ fetched' = None
    /\ data' = None
    /\ errors' = <<>>
    /\ charts' = <<>>
    /\ log' = <<>>
    /\ raised' = FALSE

Next == MainFetch \/ MainDerive \/ MainRender \/ Rerun

Spec == Init /\ [][Next]_vars

-----------------------------------------------------------------------------
(* Direct calls: calculate_indicators on any frame (None and empty frames   *)
(* included) with any options, then plot_stock_data on the series returned. *)
(* downloaded.table keeps the argument as the caller built it.              *)

DirectInit ==
    /\ ticker = "AAPL"
    /\ show_sma \in BOOLEAN
    /\ sma_period \in Periods
    /\ show_ema \in BOOLEAN
    /\ ema_period \in Periods
    /\ show_bollinger \in BOOLEAN
    /\ show_rsi \in BOOLEAN
    /\ show_macd \in BOOLEAN
    /\ pc = "call_calculate"
    /\ fetched \in DirectInputs
    /\ downloaded = [kind |-> "argument", table |-> fetched, err |-> ""]
    /\ data = None
    /\ errors = <<>>
    /\ charts = <<>>
    /\ log = <<>>
    /\ raised = FALSE

DirectCalculate ==
    /\ pc = "call_calculate"
    /\ LET r == calculate_indicators(fetched, show_sma, sma_period, show_ema, ema_period,
                                     show_bollinger, show_rsi, show_macd)
       IN  /\ data' = r.ret
           /\ fetched' = r.arg
           /\ raised' = r.raised
           /\ log' = Append(log, "calculate_indicators")
           /\ pc' = IF ~r.raised /\ ~r.ret.none THEN "call_plot" ELSE "returned"
    /\ UNCHANGED <<widgets, downloaded, errors, charts>>

DirectPlot ==
    /\ pc = "call_plot"
    /\ LET r == plot_stock_data(data, ticker, show_sma, sma_period, show_ema, ema_period,
                                show_bollinger, show_rsi, show_macd)
       IN  /\ charts' = charts \o r.charts
           /\ raised' = r.raised
           /\ log' = Append(log, "plot_stock_data")
           /\ pc' = "returned"
    /\ UNCHANGED <<widgets, downloaded, fetched, data, errors>>

DirectNext == DirectCalculate \/ DirectPlot

DirectSpec == DirectInit /\ [][DirectNext]_vars

-----------------------------------------------------------------------------
(* Vocabulary of the properties *)

InLog(name) == \E i \in 1..Len(log) : log[i] = name

CountInLog(name) == Cardinality({i \in 1..Len(log) : log[i] = name})

\* The message contains the piece t.
Mentions(msg, t) == \E i \in 1..Len(msg) : msg[i] = t

Shown(msg) == \E i \in 1..Len(errors) : errors[i] = msg

\* The three kinds of acquisition failure, read off the provider's outcome.
ProviderGaveNothing ==
    \/ downloaded.kind = "none"
    \/ downloaded.kind = "table" /\ Empty(downloaded.table)

ProviderRaised == downloaded.kind = "raise"

NoCloseAtFirstLevel ==
    /\ downloaded.kind = "table"
    /\ ~Empty(downloaded.table)
    /\ \A j \in 1..Len(downloaded.table.columns) :
          downloaded.table.columns[j][1] # "Close"

Fetched == downloaded.kind \in {"none", "table", "raise"}

AcquisitionFailed == Fetched /\ fetched.none

Plotted == pc = "done" /\ InLog("plot_stock_data")

SectionIndexes(section) == {i \in 1..Len(charts) : charts[i].section = section}

TraceColumns(chart) == [i \in 1..Len(chart.traces) |-> chart.traces[i].y]

-----------------------------------------------------------------------------
\* C1: get_stock_data returns None or a non-empty frame with a flat 'Close'
\* column; it returns None exactly when the provider returned nothing or an
\* empty table, when no label's first level is 'Close', or when the provider
\* raised; and no exception escapes it.
C1_GetStockDataResult ==
    Fetched =>
        /\ fetched.none \/ (~Empty(fetched) /\ ~fetched.nested /\ HasColumn(fetched, "Close"))
        /\ fetched.none <=> (ProviderGaveNothing \/ ProviderRaised \/ NoCloseAtFirstLevel)
        /\ Len(log) = 2 => (~raised /\ pc # "crashed")

C1_Witness ==
    /\ downloaded.kind = "table"
    /\ downloaded.table.nested
    /\ ~fetched.none
    /\ len(fetched) = 1
    /\ pc = "derive"

\* C2: when acquisition fails, main stops: calculate_indicators and
\* plot_stock_data are not called and no chart is drawn.
C2_FailedFetchHalts ==
    AcquisitionFailed =>
        /\ pc = "done"
        /\ ~InLog("calculate_indicators")
        /\ ~InLog("plot_stock_data")
        /\ charts = <<>>

C2_Witness ==
    /\ NoCloseAtFirstLevel
    /\ fetched.none
    /\ pc = "done"
    /\ errors # <<>>

\* C3 as stated: every acquisition failure shows a message naming the ticker.
C3_EveryFailureNamesTicker ==
    AcquisitionFailed => \E i \in 1..Len(errors) : Mentions(errors[i], ticker)

\* C3 amended: every acquisition failure shows a message; for the no-data and
\* the exception kind a message names the requested ticker (and, for an
\* exception, carries its text); for the missing-'Close' kind the messages
\* shown do not name the ticker.
C3_FailureMessages ==
    AcquisitionFailed =>
        /\ errors # <<>>
        /\ Shown(FailedFetchMessage)
        /\ (ProviderGaveNothing \/ ProviderRaised) =>
              \E i \in 1..Len(errors) : Mentions(errors[i], ticker)
        /\ ProviderRaised =>
              \E i \in 1..Len(errors) :
                  Mentions(errors[i], ticker) /\ Mentions(errors[i], downloaded.err)
        /\ NoCloseAtFirstLevel =>
              /\ Shown(MissingCloseMessage)
              /\ \A i \in 1..Len(errors) : ~Mentions(errors[i], ticker)

C3_Witness ==
    /\ ProviderGaveNothing
    /\ ticker = "TSLA"
    /\ pc = "done"
    /\ Shown(NoDataMessage("TSLA"))

\* C6 as stated: when derivation yields no usable series (None, or no rows
\* left once the rows without a closing price are dropped), the interaction
\* ends with the "No valid data for plotting" message, without calling
\* plot_stock_data and without a chart; and that only happens when the
\* provider's result was empty.
C6_NoUsableSeriesSkipsRendering ==
    (pc = "done" /\ InLog("calculate_indicators") /\ (data.none \/ len(data) = 0)) =>
        /\ Shown(NoValidDataMessage)
        /\ ~InLog("plot_stock_data")
        /\ charts = <<>>
        /\ ProviderGaveNothing

\* C7: plot_stock_data draws exactly one primary chart, the first figure; its
\* traces are Close, then SMA_<sma_period>, EMA_<ema_period>, BB_high and
\* BB_low, each group present exactly when its toggle is on and its column is
\* in the frame.
ExpectedPrimaryColumns ==
    <<"Close">>
    \o (IF show_sma /\ HasColumn(data, SmaName(sma_period))
        THEN <<SmaName(sma_period)>> ELSE <<>>)
    \o (IF show_ema /\ HasColumn(data, EmaName(ema_period))
        THEN <<EmaName(ema_period)>> ELSE <<>>)
    \o (IF show_bollinger /\ HasColumn(data, "BB_high")
        THEN <<"BB_high", "BB_low">> ELSE <<>>)

ExpectedPrimaryCount ==
    1 + (IF show_sma /\ HasColumn(data, SmaName(sma_period)) THEN 1 ELSE 0)
      + (IF show_ema /\ HasColumn(data, EmaName(ema_period)) THEN 1 ELSE 0)
      + (IF show_bollinger /\ HasColumn(data, "BB_high") THEN 2 ELSE 0)

AllTogglesOff == ~show_sma /\ ~show_ema /\ ~show_bollinger /\ ~show_rsi /\ ~show_macd

OnlySmaOn == show_sma /\ ~show_ema /\ ~show_bollinger /\ ~show_rsi /\ ~show_macd

C7_PrimaryChartTraces ==
    Plotted =>
        /\ SectionIndexes("") = {1}
        /\ charts[1].title = ticker \o " Stock Price"
        /\ charts[1].traces[1].name = "Close Price"
        /\ Len(charts[1].traces) = ExpectedPrimaryCount
        /\ TraceColumns(charts[1]) = ExpectedPrimaryColumns
        /\ AllTogglesOff => TraceColumns(charts[1]) = <<"Close">>
        /\ (OnlySmaOn /\ sma_period = DefaultPeriod /\ len(data) = ScenarioRows) =>
              TraceColumns(charts[1]) = <<"Close", "SMA_20">>

C7_Witness ==
    /\ Plotted
    /\ show_sma /\ show_ema /\ show_bollinger
    /\ sma_period = MinPeriod
    /\ len(data) = ScenarioRows
    /\ Len(charts[1].traces) = 5

\* C8: at the end of a successful interaction the RSI chart is drawn exactly
\* when RSI is on and the RSI column exists, which is exactly when more than
\* 14 rows have a closing price; it holds the RSI trace and the levels 70 and
\* 30.  The MACD chart likewise (more than 26 rows), with the MACD and signal
\* traces.  The primary chart comes first and RSI before MACD, so one to three
\* charts are drawn, and nothing is raised or reported.
RsiSection == "Relative Strength Index (RSI)"

MacdSection == "MACD Indicator"

C8_SecondaryCharts ==
    Plotted =>
        /\ ~raised /\ errors = <<>>
        /\ HasColumn(data, "RSI") <=> (show_rsi /\ len(data) > RsiWindow)
        /\ HasColumn(data, "MACD") <=> (show_macd /\ len(data) > MacdWindow)
        /\ SectionIndexes(RsiSection) # {} <=> (show_rsi /\ HasColumn(data, "RSI"))
        /\ SectionIndexes(MacdSection) # {} <=> (show_macd /\ HasColumn(data, "MACD"))
        /\ Cardinality(SectionIndexes(RsiSection)) <= 1
        /\ Cardinality(SectionIndexes(MacdSection)) <= 1
        /\ \A i \in SectionIndexes(RsiSection) :
              /\ TraceColumns(charts[i]) = <<"RSI">>
              /\ charts[i].hlines = <<70, 30>>
        /\ \A i \in SectionIndexes(MacdSection) :
              /\ TraceColumns(charts[i]) = <<"MACD", "MACD_signal">>
              /\ charts[i].hlines = <<>>
        /\ Len(charts) \in 1..3
        /\ charts[1].section = ""
        /\ \A i \in SectionIndexes(RsiSection), j \in SectionIndexes(MacdSection) : i < j
        /\ \A i \in 1..Len(charts) : charts[i].section \in {"", RsiSection, MacdSection}

C8_Witness ==
    /\ Plotted
    /\ show_rsi /\ show_macd
    /\ len(fetched) = MaxRows
    /\ len(data) = RsiWindow
    /\ Len(charts) = 1

\* C9: one provider call per interaction; get_stock_data, calculate_indicators
\* and plot_stock_data are called in that order, each after the previous one
\* returned what the next needs; every step of an interaction adds a call, at
\* most the four of the pipeline, and the interaction ends with either charts
\* (the primary one first) or error messages, never both, never neither.
PipelineOrder ==
    <<"get_stock_data", "yf.download", "calculate_indicators", "plot_stock_data">>

C9_State ==
    /\ pc \in {"fetch", "derive", "render", "done"}
    /\ ~raised
    /\ Len(log) <= Len(PipelineOrder)
    /\ log = SubSeq(PipelineOrder, 1, Len(log))
    /\ pc = "fetch" <=> log = <<>>
    /\ pc # "fetch" => CountInLog("yf.download") = 1
    /\ InLog("calculate_indicators") => ~fetched.none
    /\ InLog("plot_stock_data") => ~data.none
    /\ pc = "derive" => Len(log) = 2
    /\ pc = "render" => Len(log) = 3
    /\ pc # "done" => (charts = <<>> /\ errors = <<>>)
    /\ pc = "done" => (charts # <<>>) # (errors # <<>>)
    /\ charts # <<>> => charts[1].section = ""

C9_OneFetchThenInOrder ==
    /\ []C9_State
    /\ [][(pc # "done" => Len(log') > Len(log)) /\ (pc = "done" => pc' = "fetch")]_vars

C9_Witness ==
    /\ pc = "done"
    /\ ProviderRaised
    /\ log = <<"get_stock_data", "yf.download">>
    /\ Len(errors) = 2

-----------------------------------------------------------------------------
(* Properties of direct calls (DirectSpec).  Argument is the frame as the   *)
(* caller built it.                                                         *)

Argument == downloaded.table

Called == pc \in {"call_plot", "returned"}

Usable == ~Argument.none /\ ~Empty(Argument)

\* No column of the argument bears a name calculate_indicators may write.
NoDerivedNameInArgument ==
    \A nm \in DerivedNames(sma_period, ema_period) : ~HasColumn(Argument, nm)

\* Rows of the argument whose closing price is present.
ClosePresent(r) == r.vals[ColIndex(Argument, "Close")] # NaN

ValidRowCount == Cardinality({i \in 1..Len(Argument.rows) : ClosePresent(Argument.rows[i])})

ValidRows == SelectSeq(Argument.rows, ClosePresent)

\* C4: on a non-empty series none of whose columns bears a derived name, each
\* indicator's columns are in the output exactly when the indicator is on and
\* more rows have a closing price than its window; nothing is raised.
C4_IndicatorColumnsPresence ==
    (Called /\ Usable /\ NoDerivedNameInArgument) =>
        /\ ~raised
        /\ ~data.none
        /\ HasColumn(data, SmaName(sma_period)) <=> (show_sma /\ ValidRowCount > sma_period)
        /\ HasColumn(data, EmaName(ema_period)) <=> (show_ema /\ ValidRowCount > ema_period)
        /\ HasColumn(data, "BB_high") <=> (show_bollinger /\ ValidRowCount > 20)
        /\ HasColumn(data, "BB_low") <=> (show_bollinger /\ ValidRowCount > 20)
        /\ HasColumn(data, "RSI") <=> (show_rsi /\ ValidRowCount > 14)
        /\ HasColumn(data, "MACD") <=> (show_macd /\ ValidRowCount > 26)
        /\ HasColumn(data, "MACD_signal") <=> (show_macd /\ ValidRowCount > 26)

C4_Witness ==
    /\ Called /\ Usable /\ NoDerivedNameInArgument
    /\ show_sma /\ show_rsi /\ show_macd /\ show_bollinger
    /\ sma_period = MinPeriod
    /\ len(Argument) = MaxRows
    /\ ValidRowCount = RsiWindow
    /\ HasColumn(data, "SMA_5")
    /\ ~HasColumn(data, "RSI")
    /\ ~HasColumn(data, "BB_high")
    /\ ~HasColumn(data, "MACD")

\* C5: calculate_indicators returns None, without raising, when its input is
\* None or empty, whatever the options; any other input yields a series.
C5_NoneIffNoneOrEmpty ==
    Called =>
        /\ ~Usable => (data.none /\ ~raised /\ pc = "returned")
        /\ Usable => (~data.none /\ (Len(log) = 1 => ~raised))

C5_Witness ==
    /\ Called
    /\ ~Argument.none
    /\ Len(Argument.columns) = 2
    /\ Len(Argument.rows) = 0
    /\ show_sma /\ show_macd
    /\ data.none

\* C10 as stated: for every non-empty input, the output's rows are the input
\* rows with a closing price, in order, with every input column and value
\* unchanged; the added columns bear derived names; the caller's frame is
\* untouched; plot_stock_data changes nothing.
OutputKeepsInput ==
    /\ ~data.none
    /\ fetched = Argument
    /\ Len(data.columns) >= Len(Argument.columns)
    /\ \A j \in 1..Len(Argument.columns) : data.columns[j] = Argument.columns[j]
    /\ \A j \in (Len(Argument.columns) + 1)..Len(data.columns) :
          /\ Len(data.columns[j]) = 1
          /\ data.columns[j][1] \in DerivedNames(sma_period, ema_period)
    /\ Len(data.rows) = Len(ValidRows)
    /\ \A i \in 1..Len(data.rows) :
          /\ data.rows[i].date = ValidRows[i].date
          /\ Len(data.rows[i].vals) = Len(data.columns)
          /\ \A j \in 1..Len(Argument.columns) :
                data.rows[i].vals[j] = ValidRows[i].vals[j]

====
